---- MODULE Spec2Model ----
(***************************************************************************)
(* A model of quacks.py: the ingredient Bag (master / current / picked     *)
(* lists of Ingredient tokens) and Player.simulate_round, the loop that    *)
(* picks ingredients until the pot explodes, the board ends, the bag is    *)
(* empty or the risk of exploding exceeds the player's tolerance.          *)
(*                                                                         *)
(* Ingredient instances carry no identity of their own in the model: an    *)
(* Ingredient is the record [color, value].  list.remove(x) on a list of   *)
(* Ingredient objects compares by identity (the class defines no __eq__),  *)
(* so removing the instance random.choice returned is removing the         *)
(* element at the chosen index.                                            *)
(*                                                                         *)
(* Probabilities are exact rationals <<numerator, denominator>>.  The      *)
(* code divides two small ints into a float and compares it with the       *)
(* risk_tolerance float; for the denominators used here two different      *)
(* rationals never round to the same float, so the exact comparison is     *)
(* the float comparison.                                                   *)
(***************************************************************************)
EXTENDS Integers, Sequences, FiniteSets, TLC

\* ------------------------------------------------------------------ bounds
\* Bag-level pick_ingredient calls are explored while fewer than MaxPicks
\* ingredients lie in 'picked'.
MaxPicks == 4
\* add_ingredient / remove_ingredient calls explored in one behaviour.
MaxEdits == 1

\* ------------------------------------------------------- program constants
\* Bag.__init__: self.explosion_limit = 7
explosion_limit == 7

\* Board.__init__: self.money_values
money_values ==
    <<0, 1, 2, 3, 4, 5, 6, 7, 8, 9, 10, 11, 12, 13, 14, 15, 15, 16, 16, 17,
      17, 18, 18, 19, 19, 20, 20, 21, 21, 22, 22, 23, 23, 24, 24, 25, 25,
      26, 26, 27, 27, 28, 28, 29, 29, 30, 30, 31, 31, 32, 32, 33, 33, 35>>

\* Board.__init__: self.last_playable_space = len(self.money_values) - 1
last_playable_space == Len(money_values) - 1

\* ------------------------------------------------------------ ingredients
\* Ingredient(color, value)
Ingredient(color, value) == [color |-> color, value |-> value]

\* [Ingredient(color, value) for value in values]
RECURSIVE IngredientList(_, _)
IngredientList(color, values) ==
    IF values = <<>> THEN <<>>
    ELSE <<Ingredient(color, Head(values))>> \o IngredientList(color, Tail(values))

\* The master list return_to_baseline builds.
baseline_master ==
    IngredientList("white", <<1, 1, 1, 1, 2, 2, 3>>)
        \o IngredientList("orange", <<1>>)
        \o IngredientList("green", <<1>>)

\* ------------------------------------------------------ inputs of the model
\* Master lists a round is simulated on: the empty bag, the bags the tests
\* of simulate_round build, the standard bag and a bag of white 1 tokens
\* long enough to explode.
Pools ==
    { <<>>,
      <<Ingredient("white", 1), Ingredient("white", 2)>>,
      <<Ingredient("white", 10), Ingredient("blue", 10)>>,
      <<Ingredient("blue", 2), Ingredient("blue", 2)>>,
      <<Ingredient("white", 2), Ingredient("white", 3), Ingredient("white", 10),
        Ingredient("blue", 2)>>,
      IngredientList("white", <<1, 1, 1, 1, 1, 1, 1, 1, 1>>),
      baseline_master }

\* Master lists the bag operations are explored from.
BagPools ==
    { <<>>,
      <<Ingredient("white", 1), Ingredient("white", 2)>>,
      <<Ingredient("white", 10), Ingredient("blue", 10)>>,
      <<Ingredient("white", 1), Ingredient("white", 10), Ingredient("white", 1),
        Ingredient("blue", 2)>>,
      baseline_master }

\* (color, value) arguments of add_ingredient and remove_ingredient.
EditTokens ==
    { Ingredient("white", 1), Ingredient("white", 10), Ingredient("purple", 1) }

\* Player.droplet_position and Player.rat_tails.
Droplets == {0, 2, 50}
RatTails == {0, 2, 4}

\* risk_tolerance arguments, as exact rationals: 0, 0.49, 0.5, 1.
Risks == { <<0, 1>>, <<49, 100>>, <<1, 2>>, <<1, 1>> }

\* the comparison turned round: a < b
Gt_reversed(a, b) == a[1] * b[2] < b[1] * a[2]

\* the comparison made non-strict: a >= b
Gt_or_equal(a, b) == a[1] * b[2] >= b[1] * a[2]

\* a > b for rationals with positive denominators.
Gt(a, b) == a[1] * b[2] > b[1] * a[2]

VARIABLES
    ingredients,            \* Bag.ingredients: master, current, picked
    edited,                 \* history: master changed since 'current' was last copied from it
    edits,                  \* history: number of add/remove calls so far
    call,                   \* history: the last call that wrote to the bag, its arguments
                            \* and what it returned (<<>> for None)
    droplet_position,       \* Player.droplet_position
    rat_tails,              \* Player.rat_tails
    pc,                     \* where simulate_round is: idle, picking, done, raised
    stop_before_explosion,  \* argument of the running / last simulate_round
    risk_tolerance,         \* argument of the running / last simulate_round
    current_position,       \* local of simulate_round
    draws,                  \* history: pick_ingredient calls of the running / last round
    returned,               \* the dict simulate_round returned (valid when pc = "done")
    twin                    \* a second player making the same simulate_round call on
                            \* the same random numbers: its bag, position, pc, returned

vars == <<ingredients, edited, edits, call, droplet_position, rat_tails, pc,
          stop_before_explosion, risk_tolerance, current_position, draws, returned,
          twin>>

bagVars == <<ingredients, edited, edits, call>>
roundVars == <<pc, stop_before_explosion, risk_tolerance, current_position, draws, returned,
               twin>>
playerVars == <<droplet_position, rat_tails>>

\* ---------------------------------------------------------- list helpers
\* the list without its i-th element (1-based)
RemoveAt(s, i) == SubSeq(s, 1, i - 1) \o SubSeq(s, i + 1, Len(s))

\* sum([ingredient.value for ingredient in s])
RECURSIVE SumValues(_)
SumValues(s) == IF s = <<>> THEN 0 ELSE Head(s).value + SumValues(Tail(s))

\* [ingredient for ingredient in s if ingredient.color == color]
RECURSIVE OfColor(_, _)
OfColor(s, color) ==
    IF s = <<>> THEN <<>>
    ELSE IF Head(s).color = color THEN <<Head(s)>> \o OfColor(Tail(s), color)
    ELSE OfColor(Tail(s), color)

\* max([ingredient.value for ingredient in s]) of a non-empty list
RECURSIVE MaxValue(_)
MaxValue(s) ==
    IF Len(s) = 1 THEN Head(s).value
    ELSE LET m == MaxValue(Tail(s)) IN IF Head(s).value > m THEN Head(s).value ELSE m

SetNames == {"master", "current", "picked"}

\* --------------------------------------------------------- Bag: queries
\* sum_ingredient_color that falls back on the default set 'current'
sum_ingredient_color_default_set(ing, color, set_of_ingredients) ==
    IF set_of_ingredients \in SetNames
    THEN SumValues(OfColor(ing[set_of_ingredients], color))
    ELSE SumValues(OfColor(ing.current, color))

\* Bag.sum_ingredient_color(color, set_of_ingredients); an unknown set name
\* warns and gives 0.
sum_ingredient_color(ing, color, set_of_ingredients) ==
    IF set_of_ingredients \in SetNames
    THEN SumValues(OfColor(ing[set_of_ingredients], color))
    ELSE 0

\* max_ingredient_color that takes the max over the tokens of every color
max_ingredient_color_any_color(ing, color, set_of_ingredients) ==
    IF set_of_ingredients \in SetNames
    THEN LET chosen == ing[set_of_ingredients]
             colors_chosen_ingredients == { chosen[k].color : k \in 1..Len(chosen) }
         IN  IF Len(chosen) = 0 \/ color \notin colors_chosen_ingredients
             THEN 0
             ELSE MaxValue(chosen)
    ELSE 0

\* Bag.max_ingredient_color(color, set_of_ingredients)
max_ingredient_color(ing, color, set_of_ingredients) ==
    IF set_of_ingredients \in SetNames
    THEN LET chosen == ing[set_of_ingredients]
             len_chosen_ingredients == Len(chosen)
             colors_chosen_ingredients == { chosen[k].color : k \in 1..Len(chosen) }
         IN  IF len_chosen_ingredients = 0 \/ color \notin colors_chosen_ingredients
             THEN 0
             ELSE MaxValue(OfColor(chosen, color))
    ELSE 0

\* Bag.get_picked_white_value()
get_picked_white_value(ing) == SumValues(OfColor(ing.picked, "white"))

\* explosion_causing_tokens with > in place of >=
RECURSIVE explosion_causing_tokens_strict(_, _)
explosion_causing_tokens_strict(s, value_needed_to_explode) ==
    IF s = <<>> THEN <<>>
    ELSE IF Head(s).color = "white" /\ Head(s).value > value_needed_to_explode
         THEN <<Head(s)>> \o explosion_causing_tokens_strict(Tail(s), value_needed_to_explode)
         ELSE explosion_causing_tokens_strict(Tail(s), value_needed_to_explode)

\* [ingredient for ingredient in current
\*  if ingredient.color == 'white' and ingredient.value >= value_needed_to_explode]
RECURSIVE explosion_causing_tokens(_, _)
explosion_causing_tokens(s, value_needed_to_explode) ==
    IF s = <<>> THEN <<>>
    ELSE IF Head(s).color = "white" /\ Head(s).value >= value_needed_to_explode
         THEN <<Head(s)>> \o explosion_causing_tokens(Tail(s), value_needed_to_explode)
         ELSE explosion_causing_tokens(Tail(s), value_needed_to_explode)

\* chance_to_explode without the + 1 in value_needed_to_explode
chance_to_explode_at_limit(ing) ==
    LET value_needed_to_explode == explosion_limit - get_picked_white_value(ing)
    IN  IF max_ingredient_color(ing, "white", "current") < value_needed_to_explode
           \/ Len(ing.current) = 0
        THEN <<0, 1>>
        ELSE <<Len(explosion_causing_tokens(ing.current, value_needed_to_explode)),
               Len(ing.current)>>

\* chance_to_explode that leaves the picked white value out of account
chance_to_explode_ignoring_picked(ing) ==
    LET value_needed_to_explode == explosion_limit + 1
    IN  IF max_ingredient_color(ing, "white", "current") < value_needed_to_explode
           \/ Len(ing.current) = 0
        THEN <<0, 1>>
        ELSE <<Len(explosion_causing_tokens(ing.current, value_needed_to_explode)),
               Len(ing.current)>>

\* Bag.chance_to_explode(): the probability, as <<numerator, denominator>>
chance_to_explode(ing) ==
    LET value_needed_to_explode == explosion_limit - get_picked_white_value(ing) + 1
    IN  IF max_ingredient_color(ing, "white", "current") < value_needed_to_explode
           \/ Len(ing.current) = 0
        THEN <<0, 1>>
        ELSE <<Len(explosion_causing_tokens(ing.current, value_needed_to_explode)),
               Len(ing.current)>>

\* ------------------------------------------------------ Bag: operations
\* Each operation is the value of Bag.ingredients after the call.

\* pick_ingredient that leaves the picked ingredient in 'current'
pick_ingredient_not_removed(ing, i) ==
    [ing EXCEPT !.picked = Append(ing.picked, ing.current[i])]

\* pick_ingredient that puts the picked ingredient in front of 'picked'
pick_ingredient_in_front(ing, i) ==
    [ing EXCEPT !.current = RemoveAt(ing.current, i),
                !.picked = <<ing.current[i]>> \o ing.picked]

\* Bag.pick_ingredient() when random.choice returns current[i]
pick_ingredient(ing, i) ==
    [ing EXCEPT !.current = RemoveAt(ing.current, i),
                !.picked = Append(ing.picked, ing.current[i])]

\* None, where a list of ingredients would hold it
None == [color |-> "None", value |-> 0]

\* pick_ingredient on an empty bag with the append outside the length check
pick_ingredient_none_appended(ing) ==
    [ing EXCEPT !.picked = Append(ing.picked, None)]

\* Bag.pick_ingredient() when 'current' is empty: 'the bag is empty!'
pick_ingredient_none(ing) == ing

\* random.choice over the distinct tokens instead of over the instances
choices_by_token(ing) ==
    { k \in 1..Len(ing.current) :
        \A j \in 1..(k - 1) : ing.current[j] # ing.current[k] }

\* the positions random.choice(self.ingredients['current']) chooses among,
\* each with the same probability
choices(ing) == 1..Len(ing.current)

\* reset that puts the picked ingredients back instead of copying 'master'
reset_picked_ingredients_put_back(ing) ==
    [ing EXCEPT !.current = ing.current \o ing.picked, !.picked = <<>>]

\* Bag.reset_picked_ingredients()
reset_picked_ingredients(ing) ==
    [ing EXCEPT !.current = ing.master, !.picked = <<>>]

\* add_ingredient that also drops the new ingredient into 'current'
add_ingredient_into_current(ing, color, value) ==
    [ing EXCEPT !.master = Append(ing.master, Ingredient(color, value)),
                !.current = Append(ing.current, Ingredient(color, value))]

\* Bag.add_ingredient(color, value)
add_ingredient(ing, color, value) ==
    [ing EXCEPT !.master = Append(ing.master, Ingredient(color, value))]

\* indices of the master ingredients remove_ingredient may remove
potential_ingredients(ing, color, value) ==
    { k \in 1..Len(ing.master) :
        ing.master[k].color = color /\ ing.master[k].value = value }

\* the greatest index: potential_ingredients[-1]
First_from_the_end(S) == CHOOSE k \in S : \A j \in S : k >= j

\* the least index of a non-empty set of indices: potential_ingredients[0]
First(S) == CHOOSE k \in S : \A j \in S : k <= j

\* Bag.remove_ingredient(color, value)
remove_ingredient(ing, color, value) ==
    LET potential == potential_ingredients(ing, color, value)
    IN  IF Cardinality(potential) > 0
        THEN [ing EXCEPT !.master = RemoveAt(ing.master, First(potential))]
        ELSE ing

\* what Bag.remove_ingredient(color, value) returns: the removed instance or None
removed_ingredient(ing, color, value) ==
    LET potential == potential_ingredients(ing, color, value)
    IN  IF Cardinality(potential) > 0 THEN <<ing.master[First(potential)]>> ELSE <<>>

\* return_to_baseline that keeps the ingredients added to 'master'
return_to_baseline_extended(ing) ==
    reset_picked_ingredients([ing EXCEPT !.master = ing.master \o baseline_master])

\* Bag.return_to_baseline()
return_to_baseline(ing) ==
    reset_picked_ingredients([ing EXCEPT !.master = baseline_master])

\* ---------------------------------------------------------------- actions
\* the value of 'returned' while no call of simulate_round has returned
no_result == [final_position |-> 0, overall_value |-> 0, white_value |-> 0]

\* Bag() with the master list built and the picked ingredients reset.
BagInit(pools) ==
    /\ \E m \in pools : ingredients = [master |-> m, current |-> m, picked |-> <<>>]
    /\ edited = FALSE
    /\ edits = 0
    /\ call = [name |-> "Bag", args |-> <<>>, returned |-> <<>>]

\* simulate_round has not been called.
RoundInit ==
    /\ pc = "idle"
    /\ stop_before_explosion = FALSE
    /\ risk_tolerance = <<0, 1>>
    /\ current_position = 0
    /\ draws = 0
    /\ returned = no_result
    /\ twin = [ingredients |-> [master |-> <<>>, current |-> <<>>, picked |-> <<>>],
               current_position |-> 0, pc |-> "idle", returned |-> no_result]

\* a call of bag.pick_ingredient() outside simulate_round
Bag_pick_ingredient ==
    /\ pc = "idle"
    /\ Len(ingredients.picked) < MaxPicks
    /\ IF Len(ingredients.current) > 0
       THEN \E i \in choices(ingredients) :
                /\ ingredients' = pick_ingredient(ingredients, i)
                /\ call' = [name |-> "pick_ingredient", args |-> <<>>,
                            returned |-> <<ingredients.current[i]>>]
       ELSE /\ ingredients' = pick_ingredient_none(ingredients)
            /\ call' = [name |-> "pick_ingredient", args |-> <<>>, returned |-> <<>>]
    /\ UNCHANGED <<edited, edits, playerVars, roundVars>>

\* a call of bag.reset_picked_ingredients()
Bag_reset_picked_ingredients ==
    /\ pc = "idle"
    /\ ingredients' = reset_picked_ingredients(ingredients)
    /\ call' = [name |-> "reset_picked_ingredients", args |-> <<>>, returned |-> <<>>]
    /\ edited' = FALSE
    /\ UNCHANGED <<edits, playerVars, roundVars>>

\* a call of bag.add_ingredient(color, value)
Bag_add_ingredient ==
    /\ pc = "idle"
    /\ edits < MaxEdits
    /\ \E t \in EditTokens :
           /\ ingredients' = add_ingredient(ingredients, t.color, t.value)
           /\ call' = [name |-> "add_ingredient", args |-> <<t.color, t.value>>,
                       returned |-> <<Ingredient(t.color, t.value)>>]
    /\ edited' = TRUE
    /\ edits' = edits + 1
    /\ UNCHANGED <<playerVars, roundVars>>

\* a call of bag.remove_ingredient(color, value)
Bag_remove_ingredient ==
    /\ pc = "idle"
    /\ edits < MaxEdits
    /\ \E t \in EditTokens :
           /\ ingredients' = remove_ingredient(ingredients, t.color, t.value)
           /\ call' = [name |-> "remove_ingredient", args |-> <<t.color, t.value>>,
                       returned |-> removed_ingredient(ingredients, t.color, t.value)]
           /\ edited' = (edited \/ potential_ingredients(ingredients, t.color, t.value) # {})
    /\ edits' = edits + 1
    /\ UNCHANGED <<playerVars, roundVars>>

\* a call of bag.return_to_baseline()
Bag_return_to_baseline ==
    /\ pc = "idle"
    /\ ingredients' = return_to_baseline(ingredients)
    /\ call' = [name |-> "return_to_baseline", args |-> <<>>, returned |-> <<>>]
    /\ edited' = FALSE
    /\ UNCHANGED <<edits, playerVars, roundVars>>

\* The bag operations on a new Player's bag.
Init ==
    /\ BagInit(BagPools)
    /\ droplet_position = 0
    /\ rat_tails = 0
    /\ RoundInit

Next ==
    \/ Bag_pick_ingredient
    \/ Bag_reset_picked_ingredients
    \/ Bag_add_ingredient
    \/ Bag_remove_ingredient
    \/ Bag_return_to_baseline

Spec == Init /\ [][Next]_vars

\* ------------------------------------------------- Player.simulate_round
\* The dict simulate_round returns, built from the bag as the loop left it.
round_result(ing, position) ==
    [final_position |-> position,
     overall_value |-> SumValues(ing.picked),
     white_value |-> SumValues(OfColor(ing.picked, "white"))]

\* the starting position without the rat tails
starting_position_droplet_only(droplet, tails) == droplet

\* current_position = self.droplet_position + self.rat_tails
starting_position(droplet, tails) == droplet + tails

\* the loop without the check of the picked white value
has_exploded_not_checked(bag) == FALSE

\* has_exploded with >= in place of >
has_exploded_at_limit(bag) == get_picked_white_value(bag) >= explosion_limit

\* has_exploded = self.bag.get_picked_white_value() > self.bag.explosion_limit
has_exploded(bag) == get_picked_white_value(bag) > explosion_limit

\* the position left where the last token landed
place_token_unclamped(position, has_reached_end) == position

\* if has_reached_end: current_position = self.board.last_playable_space
place_token(position, has_reached_end) ==
    IF has_reached_end THEN last_playable_space ELSE position

\* the end of simulate_round without the second reset
finish_round_without_reset(bag) == bag

\* self.bag.reset_picked_ingredients() before simulate_round returns
finish_round(bag) == reset_picked_ingredients(bag)

\* the check of the risk left out of the loop
has_exceeded_risk_not_rechecked(stop, bag, risk) == FALSE

\* has_exceeded_risk = stop_before_explosion and
\*                     self.bag.chance_to_explode() > risk_tolerance
has_exceeded_risk(stop, bag, risk) == stop /\ Gt(chance_to_explode(bag), risk)

\* the token moved one space, whatever its value
move_token_one_space(position, last_picked_ingredient) == position + 1

\* current_position += last_picked_ingredient.value
move_token(position, last_picked_ingredient) ==
    position + last_picked_ingredient.value

\* the start of simulate_round without the first reset
start_round_without_reset(bag) == bag

\* self.bag.reset_picked_ingredients() as simulate_round is entered
start_round(bag) == reset_picked_ingredients(bag)

\* simulate_round(stop, risk) up to the loop, on the bag 'ing' of a player
\* with the given droplet and rat tails: the bag is reset, the position
\* starts at the droplet plus the rat tails, and a start that is already too
\* risky skips the loop, so that the call returns at once.  The value is the
\* bag, the locals and the place the call has come to.
simulate_round_setup(ing, droplet, tails, stop, risk) ==
    LET bag == start_round(ing)
        position == starting_position(droplet, tails)
        picking == ~(stop /\ Gt(chance_to_explode(bag), risk))
    IN  IF picking
        THEN [ingredients |-> bag, current_position |-> position,
              pc |-> "picking", returned |-> no_result]
        ELSE [ingredients |-> finish_round(bag), current_position |-> position,
              pc |-> "done", returned |-> round_result(bag, position)]

\* One iteration of the loop of a call that has come to 'round', in which
\* random.choice returns current[i]; the iteration that ends the loop also
\* ends the call.  On an empty bag pick_ingredient returns None and
\* last_picked_ingredient.value raises AttributeError.
simulate_round_iteration(round, i, stop, risk) ==
    IF Len(round.ingredients.current) = 0
    THEN [round EXCEPT !.pc = "raised"]
    ELSE
    LET last_picked_ingredient == round.ingredients.current[i]
        bag == pick_ingredient(round.ingredients, i)
        position == move_token(round.current_position, last_picked_ingredient)
        exploded == has_exploded(bag)
        has_reached_end == position >= last_playable_space
        has_no_ingredients == Len(bag.current) = 0
        exceeded == has_exceeded_risk(stop, bag, risk)
        picking ==
            ~(exploded \/ has_reached_end \/ has_no_ingredients \/ exceeded)
        placed == place_token(position, has_reached_end)
    IN  IF picking
        THEN [ingredients |-> bag, current_position |-> placed,
              pc |-> "picking", returned |-> round.returned]
        ELSE [ingredients |-> finish_round(bag), current_position |-> placed,
              pc |-> "done", returned |-> round_result(bag, placed)]

\* A bag with the master list of 'ing' that earlier pick_ingredient calls
\* have picked empty, in the order of the master list.
picked_empty(ing) ==
    [master |-> ing.master, current |-> <<>>, picked |-> ing.master]

\* the element the random number that chose the i-th of the running call's
\* list chooses in a list of n elements
same_choice(i, n) == ((i - 1) % n) + 1

\* The iteration of the second player's call, on the same random number.
twin_iteration(i) ==
    IF twin.pc = "picking"
    THEN simulate_round_iteration(
             twin,
             IF Len(twin.ingredients.current) = 0 THEN i
             ELSE same_choice(i, Len(twin.ingredients.current)),
             stop_before_explosion, risk_tolerance)
    ELSE twin

\* The call simulate_round(stop, risk) up to the loop.  A second player with
\* the same master list, droplet and rat tails, whose bag has been picked
\* empty, makes the same call.
simulate_round_start(stop, risk) ==
    /\ pc \in {"idle", "done", "raised"}
    /\ stop_before_explosion' = stop
    /\ risk_tolerance' = risk
    /\ draws' = 0
    /\ \E round \in {simulate_round_setup(ingredients, droplet_position, rat_tails,
                                           stop, risk)} :
           /\ ingredients' = round.ingredients
           /\ current_position' = round.current_position
           /\ pc' = round.pc
           /\ returned' = round.returned
    /\ twin' = simulate_round_setup(picked_empty(ingredients), droplet_position,
                                    rat_tails, stop, risk)
    /\ edited' = FALSE
    /\ call' = [name |-> "reset_picked_ingredients", args |-> <<>>, returned |-> <<>>]
    /\ UNCHANGED <<edits, playerVars>>

\* One iteration of the loop in which random.choice returns current[i];
\* the iteration that ends the loop also ends the call.
simulate_round_pick(i) ==
    /\ pc = "picking"
    /\ i \in 1..Len(ingredients.current)
    /\ \E round \in {simulate_round_iteration(
                          [ingredients |-> ingredients,
                           current_position |-> current_position,
                           pc |-> pc, returned |-> returned],
                          i, stop_before_explosion, risk_tolerance)} :
           /\ ingredients' = round.ingredients
           /\ current_position' = round.current_position
           /\ pc' = round.pc
           /\ returned' = round.returned
           /\ call' = IF round.pc = "picking"
                      THEN [name |-> "pick_ingredient", args |-> <<>>,
                            returned |-> <<ingredients.current[i]>>]
                      ELSE [name |-> "reset_picked_ingredients", args |-> <<>>,
                            returned |-> <<>>]
    /\ twin' = twin_iteration(i)
    /\ draws' = draws + 1
    /\ UNCHANGED <<edited, edits, playerVars, stop_before_explosion, risk_tolerance>>

\* The iteration on an empty bag: pick_ingredient returns None and
\* last_picked_ingredient.value raises AttributeError out of simulate_round.
simulate_round_pick_none ==
    /\ pc = "picking"
    /\ Len(ingredients.current) = 0
    /\ pc' = "raised"
    /\ draws' = draws + 1
    /\ call' = [name |-> "pick_ingredient", args |-> <<>>, returned |-> <<>>]
    /\ twin' = twin_iteration(1)
    /\ UNCHANGED <<ingredients, edited, edits, playerVars, stop_before_explosion, risk_tolerance,
                   current_position, returned>>

\* A player whose bag, droplet and rat tails have been set up.
RoundsInit ==
    /\ BagInit(Pools)
    /\ droplet_position \in Droplets
    /\ rat_tails \in RatTails
    /\ RoundInit

\* simulate_round() as generate_statistics calls it, or with the cautious
\* policy and a risk tolerance.
RoundsNext ==
    \/ simulate_round_start(FALSE, <<0, 1>>)
    \/ \E risk \in Risks : simulate_round_start(TRUE, risk)
    \/ \E i \in 1..Len(ingredients.current) : simulate_round_pick(i)
    \/ simulate_round_pick_none

RoundSpec == RoundsInit /\ [][RoundsNext]_vars

\* Rounds on a bag that earlier calls left with picked ingredients and a
\* shortened master list: pick_ingredient and remove_ingredient calls come
\* before the first simulate_round.
PlayerNext ==
    \/ Bag_pick_ingredient
    \/ Bag_remove_ingredient
    \/ RoundsNext

PlayerSpec == RoundsInit /\ [][PlayerNext]_vars

\* ================================================================ claims
\* number of elements of the list s equal to t
Count(s, t) == Cardinality({ k \in 1..Len(s) : s[k] = t })

\* the lists a and b hold the same (color, value) tokens, each as often
SameTokens(a, b) ==
    \A t \in { a[k] : k \in 1..Len(a) } \cup { b[k] : k \in 1..Len(b) } :
        Count(a, t) = Count(b, t)

\* C1 as stated: after any sequence of reset, pick, add and remove calls the
\* tokens of 'current' together with 'picked' are exactly the tokens of
\* 'master'.
C1_CurrentAndPickedAreMaster ==
    SameTokens(ingredients.current \o ingredients.picked, ingredients.master)

\* C1 as amended: 'current' together with 'picked' hold exactly the tokens of
\* 'master' whenever no add_ingredient and no successful remove_ingredient
\* has happened since 'current' was last copied from 'master'.
C1_CurrentAndPickedAreMasterUntilEdited ==
    ~edited =>
        SameTokens(ingredients.current \o ingredients.picked, ingredients.master)

\* C1 witness: the master list was edited, the bag reset and drawn from.
C1_Witness ==
    /\ edits > 0
    /\ ~edited
    /\ ingredients.master \notin BagPools
    /\ Len(ingredients.picked) >= 2
    /\ Len(ingredients.current) >= 1

\* C2: from a reset bag with no add or remove since, |current| + |picked| =
\* |master| after every pick and every reset, and a pick from a non-empty
\* 'current' takes exactly one token out of 'current' and appends that token
\* to 'picked'.
C2_PickMovesOneToken ==
    /\ [](~edited =>
            Len(ingredients.current) + Len(ingredients.picked) = Len(ingredients.master))
    /\ [][(Bag_pick_ingredient /\ ~edited /\ Len(ingredients.current) > 0) =>
            /\ Len(ingredients.current') = Len(ingredients.current) - 1
            /\ Len(ingredients.picked') = Len(ingredients.picked) + 1
            /\ SubSeq(ingredients.picked', 1, Len(ingredients.picked)) = ingredients.picked
            /\ SameTokens(ingredients.current'
                              \o <<ingredients.picked'[Len(ingredients.picked')]>>,
                          ingredients.current)
            /\ ingredients.master' = ingredients.master]_vars

\* C2 witness: a reset, unedited bag after three picks that left tokens behind.
C2_Witness ==
    /\ ~edited
    /\ Len(ingredients.picked) = 3
    /\ Len(ingredients.current) >= 1
    /\ ingredients.picked[1] # ingredients.picked[3]

\* value needed to explode, computed from the picked white tokens one by one
C3_Needed ==
    explosion_limit + 1
        - SumValues(SelectSeq(ingredients.picked, LAMBDA t : t.color = "white"))

\* positions of the white tokens of 'current'
C3_Whites ==
    { k \in 1..Len(ingredients.current) : ingredients.current[k].color = "white" }

\* positions of the white tokens of 'current' that make the pot explode
C3_Exploding ==
    { k \in C3_Whites : ingredients.current[k].value >= C3_Needed }

\* C3: chance_to_explode is 0 when 'current' is empty or its largest white
\* value is below the value needed to explode, and otherwise it is the
\* number of white tokens of 'current' with at least that value, divided by
\* |current|.
C3_ChanceToExplode ==
    LET chance == chance_to_explode(ingredients)
        largest == IF C3_Whites = {} THEN 0
                   ELSE CHOOSE v \in { ingredients.current[k].value : k \in C3_Whites } :
                            \A k \in C3_Whites : ingredients.current[k].value <= v
    IN  /\ chance[2] > 0
        /\ IF Len(ingredients.current) = 0 \/ largest < C3_Needed
           THEN chance[1] = 0
           ELSE chance[1] * Len(ingredients.current) = Cardinality(C3_Exploding) * chance[2]

\* C3 witness: white 2, 2, 1 picked from the standard bag, so that of the
\* six tokens left only the white 3 makes the pot explode: 1/6.
C3_Witness ==
    /\ ingredients.master = baseline_master
    /\ get_picked_white_value(ingredients) = 5
    /\ Len(ingredients.current) = 6
    /\ Cardinality(C3_Exploding) = 1
    /\ chance_to_explode(ingredients) = <<1, 6>>

\* ---------------------------------------------------- claims on the round
\* the position simulate_round starts from
StartingOffset == droplet_position + rat_tails

\* the bag as reset_picked_ingredients leaves it at the start of a round
FreshBag ==
    [master |-> ingredients.master, current |-> ingredients.master, picked |-> <<>>]

\* C4 as stated: simulate_round never raises, whatever the master list.
C4_NeverRaises == pc # "raised"

\* C5 as stated: a round calls pick_ingredient at most |master| times.
C5_DrawsAtMostPool == draws <= Len(ingredients.master)

\* C6 as stated: the final position of every round is at most the last
\* playable space.
C6_FinalWithinBoard ==
    pc = "done" => returned.final_position <= last_playable_space

\* C6 as amended: the final position is at most the last playable space in
\* every round that picked at least one ingredient and in every round that
\* started at or before the last playable space; a round without a pick
\* returns its starting position.
C6_FinalWithinBoardOncePicked ==
    pc = "done" =>
        /\ (draws >= 1 \/ StartingOffset <= last_playable_space)
               => returned.final_position <= last_playable_space
        /\ draws = 0 => returned.final_position = StartingOffset

\* C6 witness: a round whose picked tokens overshoot the board ends on the
\* last playable space.
C6_Witness ==
    /\ pc = "done"
    /\ draws >= 2
    /\ StartingOffset < last_playable_space
    /\ StartingOffset + returned.overall_value > last_playable_space
    /\ returned.final_position = last_playable_space

\* C7: with stop_before_explosion, a fresh bag whose chance to explode
\* exceeds the risk tolerance gives a round without any pick: the final
\* position is the starting position and both values are 0.
C7_TooRiskyStartPicksNothing ==
    (pc # "idle" /\ stop_before_explosion
        /\ chance_to_explode(FreshBag)[1] * risk_tolerance[2]
               > risk_tolerance[1] * chance_to_explode(FreshBag)[2])
    => /\ pc = "done"
       /\ draws = 0
       /\ returned.final_position = StartingOffset
       /\ returned.overall_value = 0
       /\ returned.white_value = 0

\* C7 witness: white 10 and blue 10 with tolerance 0.49 against a chance of 1/2.
C7_Witness ==
    /\ pc = "done"
    /\ stop_before_explosion
    /\ risk_tolerance = <<49, 100>>
    /\ chance_to_explode(FreshBag) = <<1, 2>>
    /\ draws = 0
    /\ returned.final_position = StartingOffset

\* the chance to explode of the fresh bag is at most the risk tolerance
C8_WithinTolerance ==
    chance_to_explode(FreshBag)[1] * risk_tolerance[2]
        <= risk_tolerance[1] * chance_to_explode(FreshBag)[2]

C9_WhiteOnes ==
    /\ Len(ingredients.master) > explosion_limit
    /\ \A k \in 1..Len(ingredients.master) :
           ingredients.master[k] = Ingredient("white", 1)

\* C9: no pick is made once the picked white value exceeds the limit; the
\* pick that exceeds it ends the round and counts in the final position;
\* white 1 tokens alone, from position 0, end after the 8th pick at 8.
C9_StopsOnceExploded ==
    /\ pc = "picking" => get_picked_white_value(ingredients) <= explosion_limit
    /\ (pc = "done" /\ returned.white_value > explosion_limit) =>
           /\ draws >= 1
           /\ returned.final_position =
                  IF StartingOffset + returned.overall_value >= last_playable_space
                  THEN last_playable_space
                  ELSE StartingOffset + returned.overall_value
    /\ (pc = "done" /\ C9_WhiteOnes /\ StartingOffset = 0
            /\ (stop_before_explosion => risk_tolerance = <<1, 1>>)) =>
           /\ draws = explosion_limit + 1
           /\ returned.white_value = explosion_limit + 1
           /\ returned.final_position = explosion_limit + 1

\* C9 witness: the round on white 1 tokens from position 0 has ended at 8.
C9_Witness ==
    /\ pc = "done"
    /\ C9_WhiteOnes
    /\ StartingOffset = 0
    /\ ~stop_before_explosion
    /\ draws = 8
    /\ returned.final_position = 8

\* C10: without stop_before_explosion, a non-empty master list whose white
\* values sum to at most the limit and whose values all fit before the last
\* playable space is picked empty, and the final position is the starting
\* position plus the sum of all its values.
C10_PicksWholeBag ==
    (pc = "done" /\ ~stop_before_explosion /\ Len(ingredients.master) > 0
        /\ SumValues(OfColor(ingredients.master, "white")) <= explosion_limit
        /\ StartingOffset + SumValues(ingredients.master) < last_playable_space)
    => /\ draws = Len(ingredients.master)
       /\ returned.overall_value = SumValues(ingredients.master)
       /\ returned.final_position = StartingOffset + SumValues(ingredients.master)

\* C10 witness: two blue 2 tokens from droplet 2 and 2 rat tails end at 8.
C10_Witness ==
    /\ pc = "done"
    /\ ~stop_before_explosion
    /\ droplet_position = 2
    /\ rat_tails = 2
    /\ Len(ingredients.master) = 2
    /\ draws = 2
    /\ returned.final_position = 8

\* ------------------------------------------------ claims C11 to C20
\* C11: simulate_round never changes 'master', and when it returns 'current'
\* is 'master', token by token, and 'picked' is empty, whatever the two
\* lists held before the call and however the round ended.
C11_RoundResetsBag ==
    /\ [](pc = "done" =>
            /\ ingredients.current = ingredients.master
            /\ ingredients.picked = <<>>)
    /\ [][pc' # "idle" => ingredients'.master = ingredients.master]_vars

\* C11 witness: a round that exploded has returned on a bag whose master
\* list had been shortened, without a reset, before the round.
C11_Witness ==
    /\ pc = "done"
    /\ edits > 0
    /\ ingredients.master \notin Pools
    /\ returned.white_value > explosion_limit
    /\ ingredients.current = ingredients.master
    /\ ingredients.picked = <<>>

\* C12: reset_picked_ingredients is idempotent: from any bag, one call and
\* two calls in a row both leave 'current' equal to 'master', token by token,
\* and 'picked' empty, and neither changes 'master'.
C12_ResetIdempotent ==
    LET once == reset_picked_ingredients(ingredients)
        twice == reset_picked_ingredients(once)
    IN  /\ once.current = ingredients.master
        /\ once.picked = <<>>
        /\ once.master = ingredients.master
        /\ twice.current = ingredients.master
        /\ twice.picked = <<>>
        /\ twice.master = ingredients.master
        /\ call.name = "reset_picked_ingredients" =>
               /\ ingredients.current = ingredients.master
               /\ ingredients.picked = <<>>

\* C12 witness: the bag was reset after its master list had been edited.
C12_Witness ==
    /\ call.name = "reset_picked_ingredients"
    /\ edits > 0
    /\ ingredients.master \notin BagPools
    /\ ingredients.current = ingredients.master
    /\ ingredients.picked = <<>>

\* C13: pick_ingredient on a bag whose 'current' is empty returns None and
\* leaves 'master', 'current' and 'picked' as they were.
C13_PickFromEmpty ==
    /\ []((call.name = "pick_ingredient" /\ call.returned = <<>>) =>
              ingredients.current = <<>>)
    /\ [][(Bag_pick_ingredient /\ Len(ingredients.current) = 0) =>
              /\ call'.name = "pick_ingredient"
              /\ call'.returned = <<>>
              /\ ingredients' = ingredients]_vars

\* C13 witness: pick_ingredient returned None on a bag picked empty.
C13_Witness ==
    /\ call.name = "pick_ingredient"
    /\ call.returned = <<>>
    /\ ingredients.current = <<>>
    /\ Len(ingredients.picked) >= 2
    /\ Len(ingredients.picked) = Len(ingredients.master)

\* C14: add_ingredient and remove_ingredient change 'master' only: add
\* appends exactly the one token (color, value), so that |master| grows by 1,
\* and both leave 'current' and 'picked' exactly as they were.
C14_EditsTouchMasterOnly ==
    /\ [][Bag_add_ingredient =>
              /\ call'.name = "add_ingredient"
              /\ ingredients'.master =
                     Append(ingredients.master,
                            [color |-> call'.args[1], value |-> call'.args[2]])
              /\ Len(ingredients'.master) = Len(ingredients.master) + 1
              /\ ingredients'.current = ingredients.current
              /\ ingredients'.picked = ingredients.picked]_vars
    /\ [][Bag_remove_ingredient =>
              /\ call'.name = "remove_ingredient"
              /\ ingredients'.current = ingredients.current
              /\ ingredients'.picked = ingredients.picked]_vars

\* C14 witness: a token was added while picked ingredients lay outside the bag.
C14_Witness ==
    /\ call.name = "add_ingredient"
    /\ Len(ingredients.picked) >= 1
    /\ Len(ingredients.current) >= 1
    /\ Len(ingredients.master) = Len(ingredients.current) + Len(ingredients.picked) + 1

\* C15: remove_ingredient(color, value) removes at most one token: with
\* k >= 1 tokens (color, value) in 'master' it removes the first of them,
\* leaving k - 1 and every other token in place, and returns it; with none
\* it returns None and 'master', 'current' and 'picked' stay as they were.
C15_RemoveFirstMatch ==
    [][Bag_remove_ingredient =>
          LET t == [color |-> call'.args[1], value |-> call'.args[2]]
              k == Count(ingredients.master, t)
          IN  /\ call'.name = "remove_ingredient"
              /\ ingredients'.current = ingredients.current
              /\ ingredients'.picked = ingredients.picked
              /\ IF k >= 1
                 THEN /\ call'.returned = <<t>>
                      /\ Count(ingredients'.master, t) = k - 1
                      /\ Len(ingredients'.master) = Len(ingredients.master) - 1
                      /\ \E i \in 1..Len(ingredients.master) :
                             /\ ingredients.master[i] = t
                             /\ \A j \in 1..(i - 1) : ingredients.master[j] # t
                             /\ \A j \in 1..(i - 1) :
                                    ingredients'.master[j] = ingredients.master[j]
                             /\ \A j \in i..Len(ingredients'.master) :
                                    ingredients'.master[j] = ingredients.master[j + 1]
                 ELSE /\ call'.returned = <<>>
                      /\ ingredients'.master = ingredients.master]_vars

\* C15 witness: the first of two white 1 tokens that are not neighbours was
\* removed; the second is still in 'master', behind the white 10.
C15_Witness ==
    /\ call.name = "remove_ingredient"
    /\ call.returned = <<Ingredient("white", 1)>>
    /\ ingredients.master =
           <<Ingredient("white", 10), Ingredient("white", 1), Ingredient("blue", 2)>>

\* colors asked for: those of the tokens and one no token has
C16_Colors == {"white", "orange", "green", "blue", "purple", "made_up_color"}

\* the values of the tokens of a color among the first n of s, added up
\* from the end of the list
RECURSIVE C16_Sum(_, _, _)
C16_Sum(s, color, n) ==
    IF n = 0 THEN 0
    ELSE (IF s[n].color = color THEN s[n].value ELSE 0) + C16_Sum(s, color, n - 1)

\* the largest value of the tokens of a color in s, 0 when there is none
C16_Max(s, color) ==
    LET values == { s[k].value : k \in { j \in 1..Len(s) : s[j].color = color } }
    IN  IF values = {} THEN 0 ELSE CHOOSE v \in values : \A w \in values : w <= v

\* C16: for each of 'master', 'current' and 'picked' and every color,
\* sum_ingredient_color is the sum of the values of that color's tokens in
\* the list and max_ingredient_color their largest value; both are 0 when
\* the list is empty or holds no token of the color.
C16_SumAndMax ==
    \A name \in SetNames : \A color \in C16_Colors :
        LET s == ingredients[name]
            absent == \A k \in 1..Len(s) : s[k].color # color
        IN  /\ sum_ingredient_color(ingredients, color, name) = C16_Sum(s, color, Len(s))
            /\ max_ingredient_color(ingredients, color, name) = C16_Max(s, color)
            /\ absent => /\ sum_ingredient_color(ingredients, color, name) = 0
                         /\ max_ingredient_color(ingredients, color, name) = 0

\* C16 witness: the three lists differ in their white tokens, one color is
\* in 'current' only and 'picked' holds no token of another.
C16_Witness ==
    /\ sum_ingredient_color(ingredients, "white", "master") = 11
    /\ sum_ingredient_color(ingredients, "white", "current") = 6
    /\ sum_ingredient_color(ingredients, "white", "picked") = 5
    /\ max_ingredient_color(ingredients, "white", "current") = 2
    /\ max_ingredient_color(ingredients, "white", "picked") = 3
    /\ max_ingredient_color(ingredients, "green", "picked") = 1
    /\ max_ingredient_color(ingredients, "orange", "picked") = 0
    /\ sum_ingredient_color(ingredients, "orange", "current") = 1

\* set names that are none of 'master', 'current', 'picked'
C17_WrongNames == {"made_up_set", "", "Master", "currents", "pool"}

\* C17: sum_ingredient_color and max_ingredient_color give 0 for a set name
\* that is none of 'master', 'current' and 'picked', whatever the bag holds.
C17_WrongSetNameGivesZero ==
    \A name \in C17_WrongNames : \A color \in C16_Colors :
        /\ sum_ingredient_color(ingredients, color, name) = 0
        /\ max_ingredient_color(ingredients, color, name) = 0

\* C17 witness: every list of the bag holds white tokens, and the wrong
\* name still gives 0.
C17_Witness ==
    /\ sum_ingredient_color(ingredients, "white", "master") > 0
    /\ sum_ingredient_color(ingredients, "white", "current") > 0
    /\ sum_ingredient_color(ingredients, "white", "picked") > 0
    /\ sum_ingredient_color(ingredients, "white", "made_up_set") = 0
    /\ max_ingredient_color(ingredients, "white", "made_up_set") = 0

\* the default starting tokens, written out
C18_Default ==
    << [color |-> "white", value |-> 1], [color |-> "white", value |-> 1],
       [color |-> "white", value |-> 1], [color |-> "white", value |-> 1],
       [color |-> "white", value |-> 2], [color |-> "white", value |-> 2],
       [color |-> "white", value |-> 3], [color |-> "orange", value |-> 1],
       [color |-> "green", value |-> 1] >>

\* C18: after any sequence of add, remove, pick and reset calls,
\* return_to_baseline leaves 'master' equal to the default starting tokens,
\* 'current' equal to 'master' and 'picked' empty.
C18_ReturnToBaseline ==
    /\ [](call.name = "return_to_baseline" =>
              ingredients = [master |-> C18_Default, current |-> C18_Default,
                             picked |-> <<>>])
    /\ [][Bag_return_to_baseline =>
              /\ call'.name = "return_to_baseline"
              /\ ingredients'.master = C18_Default
              /\ ingredients'.current = ingredients'.master
              /\ ingredients'.picked = <<>>]_vars

\* C18 witness: return_to_baseline was called on a bag that had seen an
\* add_ingredient or remove_ingredient call.
C18_Witness ==
    /\ call.name = "return_to_baseline"
    /\ edits > 0
    /\ ingredients.master = C18_Default
    /\ ingredients.current = C18_Default
    /\ ingredients.picked = <<>>

C20_Busting ==
    { i \in 1..Len(ingredients.current) :
        SumValues(OfColor(Append(ingredients.picked, ingredients.current[i]), "white"))
            > explosion_limit }

\* C20: while the picked white value is at most the limit, the numerator of
\* chance_to_explode is the number of tokens of 'current' whose pick would
\* take the picked white value over the limit; the chance is 0 exactly when
\* no single pick can do so.
C20_ChanceCountsBustingPicks ==
    SumValues(OfColor(ingredients.picked, "white")) <= explosion_limit =>
        /\ chance_to_explode(ingredients)[1] = Cardinality(C20_Busting)
        /\ chance_to_explode(ingredients)[2] > 0
        /\ (chance_to_explode(ingredients)[1] = 0) <=> (C20_Busting = {})

\* C20 witness: white 2, 2, 1 and the green 1 picked from the standard bag;
\* of the five tokens left only the white 3 makes the pot explode, the three
\* white 1 tokens and the orange 1 do not.
C20_Witness ==
    /\ ~edited
    /\ ingredients.master = baseline_master
    /\ SumValues(OfColor(ingredients.picked, "white")) = 5
    /\ Len(ingredients.current) = 5
    /\ Cardinality(C20_Busting) = 1
    /\ chance_to_explode(ingredients) = <<1, 5>>

\* ------------------------------------------------ claims C21 to C25
\* the chance to explode of the bag 'ing' is at most the risk tolerance
C21_Tolerated(ing) ==
    chance_to_explode(ing)[1] * risk_tolerance[2]
        <= risk_tolerance[1] * chance_to_explode(ing)[2]

\* C21: with stop_before_explosion, every pick inside simulate_round is made
\* from a bag whose chance to explode is at most the risk tolerance: the
\* chance is taken from 'current' and 'picked' as they are before the first
\* pick and after each pick, and a pick that leaves a chance above the
\* tolerance is the last of the round.
C21_DrawsWithinTolerance ==
    /\ []((pc = "picking" /\ stop_before_explosion) => C21_Tolerated(ingredients))
    /\ [][(draws' = draws + 1 /\ stop_before_explosion) =>
              /\ pc = "picking"
              /\ C21_Tolerated(ingredients)
              /\ \A i \in 1..Len(ingredients.current) :
                     ~C21_Tolerated(pick_ingredient(ingredients, i)) =>
                         ~(pc' = "picking" /\ ingredients' = pick_ingredient(ingredients, i))]_vars

\* C21 witness: a cautious round goes on after picks that left a chance to
\* explode above 0 and within the tolerance of 1/2.
C21_Witness ==
    /\ pc = "picking"
    /\ stop_before_explosion
    /\ risk_tolerance = <<1, 2>>
    /\ draws >= 2
    /\ chance_to_explode(ingredients)[1] > 0
    /\ C21_Tolerated(ingredients)

\* the smaller of two integers
C22_Min(a, b) == IF a <= b THEN a ELSE b

\* C22: a round with at least one pick returns as final position the smaller
\* of the starting position plus the sum of the picked values and the last
\* playable space; a round without a pick returns the starting position and
\* an overall value of 0.
C22_FinalPosition ==
    pc = "done" =>
        IF draws >= 1
        THEN returned.final_position =
                 C22_Min(StartingOffset + returned.overall_value, last_playable_space)
        ELSE /\ returned.final_position = StartingOffset
             /\ returned.overall_value = 0

\* C22 witness: a round that starts beyond the last playable space and picks
\* one token ends on the last playable space.
C22_Witness ==
    /\ pc = "done"
    /\ StartingOffset = last_playable_space + 1
    /\ draws = 1
    /\ returned.overall_value >= 1
    /\ returned.final_position = last_playable_space

\* C23: what simulate_round returns depends on the master list, the starting
\* position, the arguments and the random choices only: the player's call,
\* on whatever 'current' and 'picked' held before it and whether it is the
\* first or a later round on the bag, and the same call of a second player
\* whose bag with the same master list had been picked empty end alike, by
\* returning the same dict or by raising, after the same number of picks.
C23_OutcomeIndependentOfStaleBag ==
    pc # "idle" =>
        /\ twin.pc = pc
        /\ pc = "done" => twin.returned = returned

\* C23 witness: a round that picked tokens has returned on a bag whose master
\* list had been shortened, without a reset, before the round; the second
\* player's round on the emptied bag returned the same.
C23_Witness ==
    /\ pc = "done"
    /\ edits > 0
    /\ ingredients.master \notin Pools
    /\ draws >= 2
    /\ returned.overall_value >= 2
    /\ twin.pc = "done"
    /\ twin.returned = returned

\* C24: with stop_before_explosion and a risk tolerance of 0 no round
\* explodes: the white value returned is at most the explosion limit.
C24_CautiousRoundNeverExplodes ==
    (pc = "done" /\ stop_before_explosion /\ risk_tolerance = <<0, 1>>)
        => returned.white_value <= explosion_limit

\* C24 witness: a cautious round at tolerance 0 stopped with the picked white
\* value exactly at the explosion limit.
C24_Witness ==
    /\ pc = "done"
    /\ stop_before_explosion
    /\ risk_tolerance = <<0, 1>>
    /\ draws >= 2
    /\ returned.white_value = explosion_limit

\* the largest value of a white token in the master list, 0 without one
C25_LargestWhite ==
    LET values == { ingredients.master[k].value :
                      k \in { j \in 1..Len(ingredients.master) :
                                ingredients.master[j].color = "white" } }
    IN  IF values = {} THEN 0 ELSE CHOOSE v \in values : \A w \in values : w <= v

\* C25: in every round outcome the white value is at most the explosion
\* limit plus the largest white value in the master list, and at most the
\* overall value.
C25_OvershootWithinOneToken ==
    pc = "done" =>
        /\ returned.white_value <= explosion_limit + C25_LargestWhite
        /\ returned.white_value <= returned.overall_value

\* C25 witness: white 2 and 3 were picked before the white 10 made the pot
\* explode at 15, within 7 + 10.
C25_Witness ==
    /\ pc = "done"
    /\ C25_LargestWhite = 10
    /\ returned.white_value = 15
    /\ returned.white_value > explosion_limit
    /\ returned.overall_value >= returned.white_value

====
